---- MODULE Spec2Model ----
(***************************************************************************)
(* Weather report API (src/api.py): a LangGraph pipeline                   *)
(*   check_cache -> (fetch_weather -> build_html) -> output_html           *)
(* run per request under a MemorySaver checkpoint keyed by province, and   *)
(* the fence stripper applied to the summarizer's text.                    *)
(*                                                                         *)
(* Texts (summarizer output, html) are sequences of one-character strings, *)
(* so that strip(), startswith(), splitlines() and join() are computed as  *)
(* Python computes them.                                                   *)
(***************************************************************************)
EXTENDS Integers, Sequences, FiniteSets, TLC

VARIABLES
    checkpoint,   \* MemorySaver: thread_id (province) -> State saved after the last step
    now,          \* time.time(), in whole seconds
    pc,           \* position of the request the event loop is running
    province,     \* the request's province argument
    method,       \* "GET" or "POST"
    result_state, \* what graph.invoke returned to _get_weather_report
    response,     \* what the handler answered
    calls,        \* collaborator calls of the running request, in order
    visited,      \* pipeline nodes the running request executed, in order
    pre,          \* the checkpoint as it was when the request entered the handler
    hit,          \* which branch check_cache took: "none", "fresh", "miss"
    checkNow,     \* the value of time.time() that check_cache read
    failed,       \* the collaborator that raised in this request, or "none"
    lastHtml,     \* province -> html the latest request for it returned (<<>>: none)
    active,       \* handlers entered and not yet returned
    writer,       \* province -> the html and timestamp the latest writing step wrote
    text,         \* fence stripper check: the input text
    once,         \* fence stripper check: strip_code_fence(text)
    twice,        \* fence stripper check: strip_code_fence(strip_code_fence(text))
    fpc           \* fence stripper check: "in", "one", "two"

pvars == <<checkpoint, now, pc, province, method, result_state, response,
           calls, visited, pre, hit, checkNow, failed, lastHtml, active, writer>>
fvars == <<text, once, twice, fpc>>
vars == <<checkpoint, now, pc, province, method, result_state, response,
          calls, visited, pre, hit, checkNow, failed, lastHtml, active, writer,
          text, once, twice, fpc>>

----------------------------------------------------------------------------
(* Bounds and constants *)

\* check_cache: CACHE_DURATION = 1800 seconds
CACHE_DURATION == 1800

\* the clock stops advancing here
MaxNow == 4501

\* number of tokens an enumerated fence-stripper input is built from
MaxTokens == 4

\* time.time() is seconds since 1970: a timestamp of 0 is always older than
\* CACHE_DURATION
StartNow == CACHE_DURATION + 1

\* the clock's steps: half the cache duration, so that ages of exactly
\* CACHE_DURATION and beyond are reached
Delays == {CACHE_DURATION \div 2}

\* the allow-list (two of its ten names) and a name that is not on it
THAI_PROVINCES == {"Bangkok", "ChiangMai"}
OtherNames == {"Atlantis"}
Names == THAI_PROVINCES \cup OtherNames
Methods == {"GET", "POST"}

----------------------------------------------------------------------------
(* Text: Python str as a sequence of characters *)

\* the backtick character
BT == "^"
NL == "\n"
SP == " "
Fence == <<BT, BT, BT>>

IsSpace(c) == c \in {SP, NL}

RECURSIVE LStrip(_)
LStrip(t) ==
    IF t # <<>> /\ IsSpace(Head(t)) THEN LStrip(Tail(t)) ELSE t

RECURSIVE RStrip(_)
RStrip(t) ==
    IF t # <<>> /\ IsSpace(t[Len(t)]) THEN RStrip(SubSeq(t, 1, Len(t) - 1)) ELSE t

\* str.strip()
Strip(t) == RStrip(LStrip(t))

\* str.startswith(p)
StartsWith(t, p) == Len(t) >= Len(p) /\ SubSeq(t, 1, Len(p)) = p

\* index of the first newline of t, 0 when there is none
FirstNL(t) ==
    IF \E i \in 1..Len(t) : t[i] = NL
    THEN CHOOSE i \in 1..Len(t) : t[i] = NL /\ \A j \in 1..(i - 1) : t[j] # NL
    ELSE 0

\* str.splitlines(): no line for the empty string, none after a final newline
RECURSIVE SplitLines(_)
SplitLines(t) ==
    IF t = <<>> THEN <<>>
    ELSE LET i == FirstNL(t) IN
         IF i = 0 THEN <<t>>
         ELSE <<SubSeq(t, 1, i - 1)>> \o SplitLines(SubSeq(t, i + 1, Len(t)))

\* "\n".join(lines)
RECURSIVE Join(_)
Join(lines) ==
    IF lines = <<>> THEN <<>>
    ELSE IF Len(lines) = 1 THEN lines[1]
    ELSE lines[1] \o <<NL>> \o Join(Tail(lines))

\* lines[1:] when the first line starts with the fence
DropOpening(lines) ==
    IF lines # <<>> /\ StartsWith(lines[1], Fence) THEN Tail(lines) ELSE lines

\* lines[:-1] when the last line, stripped, is the fence
DropClosing(lines) ==
    IF lines # <<>> /\ Strip(lines[Len(lines)]) = Fence
    THEN SubSeq(lines, 1, Len(lines) - 1)
    ELSE lines

\* the stripper without its startswith test: a closing fence goes without an opening one
strip_code_fence_unguarded(t0) ==
    Strip(Join(DropClosing(DropOpening(SplitLines(Strip(t0))))))

strip_code_fence(t0) ==
    LET t == Strip(t0) IN
    IF StartsWith(t, Fence)
    THEN Strip(Join(DropClosing(DropOpening(SplitLines(t)))))
    ELSE t

----------------------------------------------------------------------------
(* State and its reducer *)

\* A value a node or the input writes is an optional: <<v>> is the value v,
\* <<>> is None
Some(v) == <<v>>
None == <<>>

add_value(left, right) == IF right # None THEN right[1] ELSE left

\* an input whose other fields are unset and leave the channels alone
StateUnset(p) == [province |-> Some(p), weather |-> None, weather_html |-> None,
                  html_timestamp |-> None]

\* State(province=p): every other field takes its default
State(p) == [province |-> Some(p), weather |-> Some(""), weather_html |-> Some(<<>>),
             html_timestamp |-> Some(0)]

\* a thread with no checkpoint yet: every channel holds its type's empty value
NoCheckpoint == [province |-> "", weather |-> "", weather_html |-> <<>>, html_timestamp |-> 0]

\* a node's return value or the input, written to the channels through add_value;
\* a key the update does not carry leaves its channel alone
Written(upd, k) == IF k \in DOMAIN upd THEN upd[k] ELSE None

Merge(st, upd) ==
    [province       |-> add_value(st.province, Written(upd, "province")),
     weather        |-> add_value(st.weather, Written(upd, "weather")),
     weather_html   |-> add_value(st.weather_html, Written(upd, "weather_html")),
     html_timestamp |-> add_value(st.html_timestamp, Written(upd, "html_timestamp"))]

\* the condition of check_cache's if
CacheFresh(state, t) ==
    state.weather_html # <<>> /\ (t - state.html_timestamp <= CACHE_DURATION)

\* check_cache handing back what it was given on a miss
check_cache_no_clear(state, t) ==
    [weather_html |-> Some(state.weather_html),
     html_timestamp |-> Some(state.html_timestamp),
     province |-> Some(state.province), weather |-> Some(state.weather)]

check_cache(state, t) ==
    IF CacheFresh(state, t)
    THEN [weather_html |-> Some(state.weather_html),
          html_timestamp |-> Some(state.html_timestamp),
          province |-> Some(state.province), weather |-> Some(state.weather)]
    ELSE [weather_html |-> Some(<<>>), html_timestamp |-> Some(0),
          province |-> Some(state.province), weather |-> Some("")]

\* the conditional edge going past fetch_weather
select_next_edge_skips(state) ==
    IF state.weather_html # <<>> /\ state.html_timestamp > 0
    THEN "output_html"
    ELSE "build_html"

select_next_edge(state) ==
    IF state.weather_html # <<>> /\ state.html_timestamp > 0
    THEN "output_html"
    ELSE "fetch_weather"

fetch_weather(result) == [weather |-> Some(result)]

\* build_html taking its timestamp from a clock that runs behind
build_html_late_clock(content, t) ==
    [weather_html |-> Some(strip_code_fence(content)),
     html_timestamp |-> Some(t - CACHE_DURATION)]

build_html(content, t) ==
    [weather_html |-> Some(strip_code_fence(content)), html_timestamp |-> Some(t)]

\* output_html returns the state it was given
output_html(state) ==
    [province |-> Some(state.province), weather |-> Some(state.weather),
     weather_html |-> Some(state.weather_html),
     html_timestamp |-> Some(state.html_timestamp)]

----------------------------------------------------------------------------
(* Responses *)

\* the wiring with build_html leading back to fetch_weather
EdgeBack(node) ==
    CASE node = "fetch_weather" -> "build_html"
      [] node = "build_html" -> "fetch_weather"
      [] node = "output_html" -> "END"

\* add_edge: the node that follows a node; after output_html graph.invoke returns
Edge(node) ==
    CASE node = "fetch_weather" -> "build_html"
      [] node = "build_html" -> "output_html"
      [] node = "output_html" -> "END"

NoResponse == [kind |-> "none", body |-> <<>>, detail |-> ""]

\* HTTPException(status_code=400, detail naming the province)
BadRequest(p) == [kind |-> "400", body |-> <<>>, detail |-> p]

\* HTTPException(status_code=500, the generation failure)
GenerationFailure == [kind |-> "500", body |-> <<>>, detail |-> "generation"]

\* an exception of a collaborator leaves the handler unhandled
Unhandled == [kind |-> "error", body |-> <<>>, detail |-> "unhandled"]

\* HTMLResponse(content=html)
HTMLResponse(html) == [kind |-> "html", body |-> html, detail |-> ""]

\* the handler without its validation
ValidAny(p) == TRUE

\* _get_weather_report: province not in THAI_PROVINCES raises the 400
Valid(p) == p \in THAI_PROVINCES

\* a health check that looks at the reports before it answers
health_check_probing ==
    [kind |-> "json", body |-> <<>>, detail |-> "API is running",
     status |-> IF \A p \in THAI_PROVINCES : checkpoint[p].weather_html = <<>>
                THEN "degraded" ELSE "ok"]

\* health_check: the fixed payload
health_check ==
    [kind |-> "json", body |-> <<>>, detail |-> "API is running", status |-> "ok"]

\* _get_weather_report after graph.invoke: strip again, 500 when nothing is left
HandlerResult(state) ==
    LET html == strip_code_fence(state.weather_html) IN
    IF html = <<>> THEN GenerationFailure ELSE HTMLResponse(html)

----------------------------------------------------------------------------
(* What the collaborators may answer *)

SearchResults == {"rain"}

X == "x"

\* summarizer texts: bare html, html in a fence, nothing, an empty fence, a
\* closing fence with no opening one, a fence inside a fence line
LlmTexts ==
    { <<X>>,
      Fence \o <<NL, X, NL>> \o Fence,
      <<>>,
      Fence \o <<NL>> \o Fence,
      <<X, NL>> \o Fence,
      Fence \o <<NL>> \o Fence \o <<X>> }

----------------------------------------------------------------------------
(* The requests *)

Cleared == [html |-> <<>>, at |-> 0]

ProgramInit ==
    /\ checkpoint = [p \in Names |-> NoCheckpoint]
    /\ now = StartNow
    /\ pc = "idle"
    /\ province = ""
    /\ method = ""
    /\ result_state = NoCheckpoint
    /\ response = NoResponse
    /\ calls = <<>>
    /\ visited = <<>>
    /\ pre = [p \in Names |-> NoCheckpoint]
    /\ hit = "none"
    /\ checkNow = 0
    /\ failed = "none"
    /\ lastHtml = [p \in Names |-> <<>>]
    /\ active = 0
    /\ writer = [p \in Names |-> Cleared]

Init ==
    /\ ProgramInit
    /\ text = <<>>
    /\ once = <<>>
    /\ twice = <<>>
    /\ fpc = "off"

\* handlers that the server would run side by side
LoopNeverBusy == TRUE

\* the handlers are async functions that call _get_weather_report, which is
\* synchronous, and await nothing: the event loop runs one handler to its end
\* before it starts the next
LoopFree == pc = "idle"

\* the handler is entered: a request the validation rejects
Reject(m, p) ==
    /\ LoopFree
    /\ ~Valid(p)
    /\ pc' = "done"
    /\ province' = p
    /\ method' = m
    /\ response' = BadRequest(p)
    /\ pre' = checkpoint
    /\ active' = active + 1
    /\ UNCHANGED <<checkpoint, now, result_state, calls, visited, hit, checkNow,
                   failed, lastHtml, writer>>
    /\ UNCHANGED fvars

\* graph.invoke run under one thread_id for every province
InvokeSharedThread(m, p) ==
    /\ LoopFree
    /\ Valid(p)
    /\ pc' = "check_cache"
    /\ province' = p
    /\ method' = m
    /\ pre' = checkpoint
    /\ checkpoint' = [checkpoint EXCEPT !["Bangkok"] = Merge(@, State(p))]
    /\ writer' = [writer EXCEPT !["Bangkok"] = Cleared]
    /\ active' = active + 1
    /\ UNCHANGED <<now, result_state, response, calls, visited, hit, checkNow,
                   failed, lastHtml>>
    /\ UNCHANGED fvars

\* the handler is entered with a valid province: graph.invoke writes
\* State(province=p) to the thread's channels and the pipeline starts. No field
\* of the input is None (the defaults are "" and 0), so add_value takes every
\* field from the input.
Invoke(m, p) ==
    /\ LoopFree
    /\ Valid(p)
    /\ pc' = "check_cache"
    /\ province' = p
    /\ method' = m
    /\ pre' = checkpoint
    /\ checkpoint' = [checkpoint EXCEPT ![p] = Merge(@, State(p))]
    /\ writer' = [writer EXCEPT ![p] = Cleared]
    /\ active' = active + 1
    /\ UNCHANGED <<now, result_state, response, calls, visited, hit, checkNow,
                   failed, lastHtml>>
    /\ UNCHANGED fvars

CheckCache ==
    /\ pc = "check_cache"
    /\ LET st == checkpoint[province]
           new == Merge(st, check_cache(st, now))
       IN /\ checkpoint' = [checkpoint EXCEPT ![province] = new]
          /\ hit' = IF CacheFresh(st, now) THEN "fresh" ELSE "miss"
          /\ writer' = IF CacheFresh(st, now) THEN writer
                        ELSE [writer EXCEPT ![province] = Cleared]
          /\ pc' = select_next_edge(new)
    /\ checkNow' = now
    /\ visited' = Append(visited, "check_cache")
    /\ UNCHANGED <<now, province, method, result_state, response, calls, pre,
                   failed, lastHtml, active>>
    /\ UNCHANGED fvars

\* tool_search.run returns
FetchWeather(r) ==
    /\ pc = "fetch_weather"
    /\ calls' = Append(calls, "search")
    /\ visited' = Append(visited, "fetch_weather")
    /\ checkpoint' = [checkpoint EXCEPT ![province] = Merge(@, fetch_weather(r))]
    /\ pc' = Edge("fetch_weather")
    /\ UNCHANGED <<now, province, method, result_state, response, pre, hit, checkNow,
                   failed, lastHtml, active, writer>>
    /\ UNCHANGED fvars

\* a failed search tried again
FetchWeatherRetries ==
    /\ pc = "fetch_weather"
    /\ Len(calls) < 3
    /\ calls' = Append(calls, "search")
    /\ visited' = Append(visited, "fetch_weather")
    /\ failed' = "search"
    /\ pc' = "fetch_weather"
    /\ UNCHANGED <<checkpoint, now, province, method, result_state, response, pre, hit,
                   checkNow, lastHtml, active, writer>>
    /\ UNCHANGED fvars

\* tool_search.run raises: the exception leaves graph.invoke and the handler
FetchWeatherFails ==
    /\ pc = "fetch_weather"
    /\ calls' = Append(calls, "search")
    /\ visited' = Append(visited, "fetch_weather")
    /\ failed' = "search"
    /\ response' = Unhandled
    /\ pc' = "done"
    /\ UNCHANGED <<checkpoint, now, province, method, result_state, pre, hit, checkNow,
                   lastHtml, active, writer>>
    /\ UNCHANGED fvars

\* llm.invoke returns
BuildHtml(content) ==
    /\ pc = "build_html"
    /\ calls' = Append(calls, "llm")
    /\ visited' = Append(visited, "build_html")
    /\ checkpoint' = [checkpoint EXCEPT ![province] = Merge(@, build_html(content, now))]
    /\ writer' = [writer EXCEPT ![province] =
                      [html |-> strip_code_fence(content), at |-> now]]
    /\ pc' = Edge("build_html")
    /\ UNCHANGED <<now, province, method, result_state, response, pre, hit, checkNow,
                   failed, lastHtml, active>>
    /\ UNCHANGED fvars

\* llm.invoke raises
BuildHtmlFails ==
    /\ pc = "build_html"
    /\ calls' = Append(calls, "llm")
    /\ visited' = Append(visited, "build_html")
    /\ failed' = "llm"
    /\ response' = Unhandled
    /\ pc' = "done"
    /\ UNCHANGED <<checkpoint, now, province, method, result_state, pre, hit, checkNow,
                   lastHtml, active, writer>>
    /\ UNCHANGED fvars

\* the last node; graph.invoke returns the thread's state
OutputHtml ==
    /\ pc = "output_html"
    /\ visited' = Append(visited, "output_html")
    /\ LET new == Merge(checkpoint[province], output_html(checkpoint[province]))
       IN /\ checkpoint' = [checkpoint EXCEPT ![province] = new]
          /\ result_state' = new
    /\ pc' = Edge("output_html")
    /\ UNCHANGED <<now, province, method, response, calls, pre, hit, checkNow,
                   failed, lastHtml, active, writer>>
    /\ UNCHANGED fvars

\* _get_weather_report after graph.invoke
Handler ==
    /\ pc = "END"
    /\ response' = HandlerResult(result_state)
    /\ pc' = "done"
    /\ UNCHANGED <<checkpoint, now, province, method, result_state, calls, visited, pre,
                   hit, checkNow, failed, lastHtml, active, writer>>
    /\ UNCHANGED fvars

\* GET /health: the handler touches nothing and returns its payload
HealthCheck ==
    /\ LoopFree
    /\ pc' = "done"
    /\ method' = "HEALTH"
    /\ response' = health_check
    /\ pre' = checkpoint
    /\ active' = active + 1
    /\ UNCHANGED <<checkpoint, now, province, result_state, calls, visited, hit,
                   checkNow, failed, lastHtml, writer>>
    /\ UNCHANGED fvars

\* the response is sent and the event loop is free again
Respond ==
    /\ pc = "done"
    /\ pc' = "idle"
    /\ province' = ""
    /\ method' = ""
    /\ result_state' = NoCheckpoint
    /\ response' = NoResponse
    /\ calls' = <<>>
    /\ visited' = <<>>
    /\ pre' = [p \in Names |-> NoCheckpoint]
    /\ hit' = "none"
    /\ checkNow' = 0
    /\ failed' = "none"
    /\ active' = active - 1
    /\ lastHtml' = IF Valid(province)
                    THEN [lastHtml EXCEPT ![province] = response.body]
                    ELSE lastHtml
    /\ UNCHANGED <<checkpoint, now, writer>>
    /\ UNCHANGED fvars

\* time passes
Tick(d) ==
    /\ now + d <= MaxNow
    /\ now' = now + d
    /\ UNCHANGED <<checkpoint, pc, province, method, result_state, response, calls,
                   visited, pre, hit, checkNow, failed, lastHtml, active, writer>>
    /\ UNCHANGED fvars

Next ==
    \/ \E m \in Methods, p \in Names : Reject(m, p)
    \/ \E m \in Methods, p \in Names : Invoke(m, p)
    \/ CheckCache
    \/ \E r \in SearchResults : FetchWeather(r)
    \/ FetchWeatherFails
    \/ \E c \in LlmTexts : BuildHtml(c)
    \/ BuildHtmlFails
    \/ OutputHtml
    \/ Handler
    \/ HealthCheck
    \/ Respond
    \/ \E d \in Delays : Tick(d)

Spec == Init /\ [][Next]_vars

----------------------------------------------------------------------------
(* check_cache and the conditional edge on every state they may be given *)

\* the values time.time() takes in the model
ClockValues ==
    {t \in StartNow..MaxNow : \E d \in Delays : (t - StartNow) % d = 0}

\* the states check_cache may be given: any html, with any timestamp up to now
CacheInputs(p, t) ==
    {[province |-> p, weather |-> w, weather_html |-> h, html_timestamp |-> ts] :
        w \in {""} \cup SearchResults,
        h \in {<<>>, <<X>>},
        ts \in {0} \cup {c \in ClockValues : c <= t}}

CacheInit ==
    /\ now \in ClockValues
    /\ province \in THAI_PROVINCES
    /\ \E st \in CacheInputs(province, now) :
          /\ checkpoint = [p \in Names |-> IF p = province THEN st ELSE NoCheckpoint]
          /\ writer = [p \in Names |->
                          IF p = province
                          THEN [html |-> st.weather_html, at |-> st.html_timestamp]
                          ELSE Cleared]
    /\ pre = checkpoint
    /\ pc = "check_cache"
    /\ method = "GET"
    /\ result_state = NoCheckpoint
    /\ response = NoResponse
    /\ calls = <<>>
    /\ visited = <<>>
    /\ hit = "none"
    /\ checkNow = 0
    /\ failed = "none"
    /\ lastHtml = [p \in Names |-> <<>>]
    /\ active = 1
    /\ text = <<>>
    /\ once = <<>>
    /\ twice = <<>>
    /\ fpc = "off"

CacheNext == CheckCache

CacheSpec == CacheInit /\ [][CacheNext]_vars

----------------------------------------------------------------------------
(* The fence stripper on every text of up to MaxTokens tokens *)

Tokens == {Fence, <<BT>>, <<X>>, <<SP>>, <<NL>>}

RECURSIVE Flatten(_)
Flatten(toks) == IF toks = <<>> THEN <<>> ELSE Head(toks) \o Flatten(Tail(toks))

Texts == {Flatten(toks) : toks \in UNION {[1..n -> Tokens] : n \in 0..MaxTokens}}

FenceInit ==
    /\ ProgramInit
    /\ text \in Texts
    /\ once = <<>>
    /\ twice = <<>>
    /\ fpc = "in"

\* build_html: html = strip_code_fence(str(resp.content))
StripOnce ==
    /\ fpc = "in"
    /\ once' = strip_code_fence(text)
    /\ fpc' = "one"
    /\ UNCHANGED <<text, twice>>
    /\ UNCHANGED pvars

\* _get_weather_report: html = strip_code_fence(result_state["weather_html"])
StripTwice ==
    /\ fpc = "one"
    /\ twice' = strip_code_fence(once)
    /\ fpc' = "two"
    /\ UNCHANGED <<text, once>>
    /\ UNCHANGED pvars

FenceNext == StripOnce \/ StripTwice

FenceSpec == FenceInit /\ [][FenceNext]_vars

----------------------------------------------------------------------------
(* Properties of the requests, checked under Spec *)

IsPrefix(s, t) == Len(s) <= Len(t) /\ s = SubSeq(t, 1, Len(s))

\* the report the checkpoint held for the requested province when the request came in
Stored == pre[province]

\* the stored report is within its validity window when check_cache reads the clock
StoredFresh ==
    Stored.weather_html # <<>> /\ checkNow - Stored.html_timestamp <= CACHE_DURATION

\* the pipeline of the running request ran to its end
Completed == pc \in {"END", "done"} /\ Valid(province) /\ failed = "none"

\* C1: when the previous request for the province returned html and this
\* request's check_cache runs within 1800 seconds of that report's timestamp,
\* this request (no collaborator failing in it) returns the same html and has
\* called no collaborator.
C1_RepeatWithin1800ServedFromCache ==
    (/\ pc = "done"
     /\ Valid(province)
     /\ failed = "none"
     /\ lastHtml[province] # <<>>
     /\ checkNow - Stored.html_timestamp <= CACHE_DURATION)
    => (response = HTMLResponse(lastHtml[province]) /\ calls = <<>>)

\* C2: check_cache takes its fresh branch exactly when the stored report has
\* html and is at most 1800 seconds old; a completed request that found the
\* stored report older than that called search and summarizer and stored the
\* new html with a new timestamp.
C2_FreshExactlyWithin1800 ==
    /\ (hit # "none" /\ Valid(province)) => ((hit = "fresh") <=> StoredFresh)
    /\ (Completed /\ checkNow - Stored.html_timestamp > CACHE_DURATION)
         => /\ calls = <<"search", "llm">>
            /\ checkpoint[province].html_timestamp >= checkNow
            /\ checkpoint[province].weather_html = writer[province].html

\* C3: a request for a valid province with no stored report calls search, then
\* the summarizer, each at most once and in that order; when its pipeline has
\* run to the end it has called each exactly once.
C3_OneSearchThenOneSummary ==
    (pc # "idle" /\ Valid(province) /\ Stored.weather_html = <<>>)
    => /\ IsPrefix(calls, <<"search", "llm">>)
       /\ Completed => calls = <<"search", "llm">>

C3_Witness ==
    /\ pc = "done"
    /\ Valid(province)
    /\ Stored = NoCheckpoint
    /\ calls = <<"search", "llm">>
    /\ response.kind = "html"

\* C4: a request, GET or POST, for a name that is not in THAI_PROVINCES is
\* answered with the 400 naming it, with no node run, no collaborator called and
\* every stored report as it was.
C4_InvalidProvinceRejectedFirst ==
    (pc # "idle" /\ method \in Methods /\ province \notin THAI_PROVINCES)
    => /\ pc = "done"
       /\ response = BadRequest(province)
       /\ calls = <<>>
       /\ visited = <<>>
       /\ checkpoint = pre

C4_Witness ==
    /\ pc = "done"
    /\ province \in OtherNames
    /\ method = "POST"
    /\ response.kind = "400"
    /\ \E p \in THAI_PROVINCES : checkpoint[p].weather_html # <<>>

\* C5: when the pipeline of a valid request completed, the handler answers the
\* 500 exactly when the stored html is empty, and otherwise returns the stored
\* html itself.
C5_FailsIffStoredHtmlEmpty ==
    (pc = "done" /\ Completed)
    => /\ (response.kind = "500") <=> (checkpoint[province].weather_html = <<>>)
       /\ checkpoint[province].weather_html # <<>>
            => response = HTMLResponse(checkpoint[province].weather_html)

\* the first line of t starts with three backticks
HasOpeningFence(t) == StartsWith(t, Fence)

\* the last line of t is three backticks
HasClosingFence(t) ==
    LET lines == SplitLines(t) IN lines # <<>> /\ Strip(lines[Len(lines)]) = Fence

\* C6: html returned with a 200 is not empty, does not open with a fence line
\* and does not close with one.
C6_ReturnedHtmlFenceFree ==
    response.kind = "html"
    => /\ response.body # <<>>
       /\ ~HasOpeningFence(response.body)
       /\ ~HasClosingFence(response.body)

\* C9: once a collaborator has failed the request is over with the unhandled
\* error: the failed collaborator was called once, the summarizer not at all
\* after a failed search, and no html goes to the caller.
C9_FailurePropagatesNoRetry ==
    failed # "none"
    => /\ pc = "done"
       /\ response = Unhandled
       /\ failed = "search" => calls = <<"search">>
       /\ failed = "llm" => calls = <<"search", "llm">>

C9_Witness ==
    /\ failed = "llm"
    /\ pc = "done"
    /\ lastHtml[province] # <<>>
    /\ response.kind = "error"

\* a request for the province in a cache miss, between check_cache and the end
\* of build_html
InCacheMiss == pc \in {"fetch_weather", "build_html"}

\* the stored html and timestamp of every province are those of one writing step
SingleWriter ==
    \A p \in Names :
        /\ checkpoint[p].weather_html = writer[p].html
        /\ checkpoint[p].html_timestamp = writer[p].at

C12_HealthAlwaysOk ==
    (pc = "done" /\ method = "HEALTH")
    => /\ response.status = "ok"
       /\ response = health_check
       /\ calls = <<>>
       /\ visited = <<>>
       /\ checkpoint = pre

\* a health check with one report stored, after a request for another
\* province that left no html
C12_Witness ==
    /\ pc = "done"
    /\ method = "HEALTH"
    /\ response.status = "ok"
    /\ \E p \in THAI_PROVINCES : checkpoint[p].weather_html # <<>>
    /\ \E p \in THAI_PROVINCES :
         checkpoint[p].province = p /\ checkpoint[p].weather_html = <<>>

\* C14: while a request runs, the stored report of every other province is
\* what it was when the request came in, and check_cache's decision is the one
\* its own thread's state gives.
C14_OtherProvincesUntouched ==
    pc # "idle"
    => /\ \A q \in Names \ {province} : checkpoint[q] = pre[q]
       /\ (hit # "none" /\ Valid(province))
            => ((hit = "fresh") <=> CacheFresh(Merge(Stored, State(province)), checkNow))

\* a request for one province answered with html while the other province
\* holds a report that is still within its window
C14_Witness ==
    /\ pc = "done"
    /\ Valid(province)
    /\ response.kind = "html"
    /\ hit = "miss"
    /\ \E q \in THAI_PROVINCES \ {province} :
          /\ checkpoint[q].weather_html # <<>>
          /\ checkNow - checkpoint[q].html_timestamp <= CACHE_DURATION
          /\ checkpoint[q] = pre[q]

CachedPath == <<"check_cache", "output_html">>
MissPath == <<"check_cache", "fetch_weather", "build_html", "output_html">>

\* some node of the pipeline can run
NodeEnabled ==
    ENABLED (\/ CheckCache
             \/ \E r \in SearchResults : FetchWeather(r)
             \/ \E c \in LlmTexts : BuildHtml(c)
             \/ OutputHtml)

\* C15: the nodes a run has executed are a prefix of check_cache, output_html
\* or of check_cache, fetch_weather, build_html, output_html; a run that has
\* not ended can take its next node, which it has not executed before; a run
\* in which no collaborator failed ends with one of the two paths complete,
\* output_html last.
C15_RunEndsAtOutputHtml ==
    (pc # "idle" /\ Valid(province))
    => /\ IsPrefix(visited, CachedPath) \/ IsPrefix(visited, MissPath)
       /\ pc \notin {"END", "done"}
            => /\ NodeEnabled
               /\ \A i \in 1..Len(visited) : visited[i] # pc
       /\ Completed => visited \in {CachedPath, MissPath}
       /\ (pc \in {"END", "done"} /\ failed # "none") => visited # MissPath

C15_Witness ==
    /\ pc = "END"
    /\ failed = "none"
    /\ visited = MissPath
    /\ Stored.weather_html # <<>>

\* the latest request for the province of the running request left no html:
\* it ended in the 500 or in a collaborator's failure
PreviousFailed ==
    /\ Valid(province)
    /\ Stored.province = province
    /\ lastHtml[province] = <<>>

----------------------------------------------------------------------------
(* Properties of check_cache and its edge, checked under CacheSpec *)

\* C13: after check_cache the next node is output_html exactly when the state
\* has html and a timestamp above 0, which is exactly when check_cache found
\* the report it was given fresh; on a miss the state is cleared (no html,
\* timestamp 0, no raw weather) and the next node is fetch_weather.
C13_RouteFollowsFreshness ==
    hit # "none"
    => LET st == checkpoint[province] IN
       /\ pc \in {"output_html", "fetch_weather"}
       /\ (pc = "output_html") <=> (st.weather_html # <<>> /\ st.html_timestamp > 0)
       /\ (pc = "output_html") <=> (hit = "fresh")
       /\ (hit = "fresh") <=> StoredFresh
       /\ hit = "fresh" => st = Stored
       /\ hit = "miss"
            => /\ st.weather_html = <<>>
               /\ st.html_timestamp = 0
               /\ st.weather = ""
               /\ pc = "fetch_weather"

\* a report of exactly CACHE_DURATION seconds found fresh and routed to output_html
C13_Witness ==
    /\ hit = "fresh"
    /\ pc = "output_html"
    /\ checkNow - Stored.html_timestamp = CACHE_DURATION

----------------------------------------------------------------------------
(* Properties of the fence stripper, checked under FenceSpec *)

Trimmed == Strip(text)

\* C7 as stated: unless both an opening and a closing fence line are present,
\* the output is the input trimmed.
C7_StrippedOnlyWhenBothMarkers ==
    fpc # "in"
    => (~(HasOpeningFence(Trimmed) /\ HasClosingFence(Trimmed)) => once = Trimmed)

\* C7 amended: an input that does not open with a fence comes out trimmed, also
\* when it ends with a closing fence line; an input that opens with a fence
\* loses its opening line, also when no closing line is present, and the output
\* is then the remaining lines trimmed.
C7_OpeningLineAlwaysRemoved ==
    fpc # "in"
    => /\ ~HasOpeningFence(Trimmed) => once = Trimmed
       /\ HasOpeningFence(Trimmed) => Len(once) + Len(Fence) <= Len(Trimmed)
       /\ (HasOpeningFence(Trimmed) /\ ~HasClosingFence(Trimmed))
            => once = Strip(Join(Tail(SplitLines(Trimmed))))

C7_Witness ==
    /\ fpc = "one"
    /\ HasOpeningFence(Trimmed)
    /\ ~HasClosingFence(Trimmed)
    /\ once # <<>>
    /\ once # Trimmed

\* C8: stripping a stripped text changes nothing.
C8_Idempotent == fpc = "two" => twice = once

====
